---- MODULE Spec2Model ----
(***************************************************************************)
(* Model of index_etfs.holdings (ticker-only variant): the provider        *)
(* loaders, the normalizer _filter_and_clean, the writer _save_holdings    *)
(* and the orchestrator get_etf_holdings.                                  *)
(*                                                                         *)
(* Python strings that the code takes apart, compares by order, joins or   *)
(* lowercases (tickers, ETF symbols, file names, file contents) are        *)
(* sequences of character codes.  Strings the code only compares for       *)
(* equality (column names, provider tags, URLs, exception types) are TLA+  *)
(* strings.  A value that may be None/null is [null |-> TRUE] or           *)
(* [null |-> FALSE, v |-> value].                                          *)
(***************************************************************************)
EXTENDS Integers, Sequences, FiniteSets, TLC

VARIABLES
    pc,      \* position of the single-threaded program
    call,    \* arguments and locals of the function being executed
    ret,     \* outcome of the last completed call: a value or an exception
    fs,      \* the filesystem: existing directories and files with contents
    trace,   \* components invoked by the last get_etf_holdings call, in order
    ncalls   \* number of get_etf_holdings calls started

vars == <<pc, call, ret, fs, trace, ncalls>>

-----------------------------------------------------------------------------
(* Bounds of the model *)

\* longest table handed directly to _filter_and_clean / _save_holdings
MaxRows == 2
\* longest table a provider serves to get_etf_holdings
MaxFetchRows == 1
\* number of get_etf_holdings calls in one run
MaxCalls == 2

-----------------------------------------------------------------------------
(* Values *)

Null == [null |-> TRUE]
Some(x) == [null |-> FALSE, v |-> x]

NoRet == [kind |-> "none"]
Ok(x) == [kind |-> "ok", value |-> x]
Raise(e, m) == [kind |-> "raise", exc |-> e, msg |-> m]

\* character-code strings used by the model
S_empty == << >>
S_dash == <<45>>                 \* "-"
S_A == <<65>>                    \* "A"
S_AB == <<65, 66>>               \* "AB"
S_B == <<66>>                    \* "B"
S_USD == <<85, 83, 68>>          \* "USD"
S_EUR == <<69, 85, 82>>          \* "EUR"
S_spy == <<115, 112, 121>>       \* "spy"
S_mdy == <<109, 100, 121>>       \* "mdy"
S_spsm == <<115, 112, 115, 109>> \* "spsm"
S_qqq == <<113, 113, 113>>       \* "qqq"
S_iwm == <<105, 119, 109>>       \* "iwm"
S_SPY == <<83, 80, 89>>          \* "SPY"
S_Qqq == <<81, 113, 113>>        \* "Qqq"
S_ZZZZ == <<90, 90, 90, 90>>     \* "ZZZZ"
S_work == <<119, 111, 114, 107>> \* "work"
S_out == <<111, 117, 116>>       \* "out"
S_nested == <<110, 101, 115, 116, 101, 100>>  \* "nested"
S_other == <<111, 116, 104, 101, 114>>        \* "other"
S_Rank == <<82, 97, 110, 107>>   \* "Rank"
Ext_txt == <<46, 116, 120, 116>> \* ".txt"
Ext_csv == <<46, 99, 115, 118>>  \* ".csv"
Ext_md == <<46, 109, 100>>       \* ".md"
NL == <<10>>                     \* "\n"

\* "No ticker column found in Direxion CSV"
M_no_ticker ==
    <<78, 111, 32, 116, 105, 99, 107, 101, 114, 32, 99, 111, 108, 117, 109, 110, 32,
      102, 111, 117, 110, 100, 32, 105, 110, 32, 68, 105, 114, 101, 120, 105, 111,
      110, 32, 67, 83, 86>>
\* "No name/description column found in Direxion CSV"
M_no_name ==
    <<78, 111, 32, 110, 97, 109, 101, 47, 100, 101, 115, 99, 114, 105, 112, 116, 105,
      111, 110, 32, 99, 111, 108, 117, 109, 110, 32, 102, 111, 117, 110, 100, 32, 105,
      110, 32, 68, 105, 114, 101, 120, 105, 111, 110, 32, 67, 83, 86>>
\* "No weight column found in Direxion CSV"
M_no_weight ==
    <<78, 111, 32, 119, 101, 105, 103, 104, 116, 32, 99, 111, 108, 117, 109, 110, 32,
      102, 111, 117, 110, 100, 32, 105, 110, 32, 68, 105, 114, 101, 120, 105, 111,
      110, 32, 67, 83, 86>>
\* "Unknown ETF symbol: "
M_unknown_symbol ==
    <<85, 110, 107, 110, 111, 119, 110, 32, 69, 84, 70, 32, 115, 121, 109, 98, 111,
      108, 58, 32>>
\* ". Valid symbols: "
M_valid_symbols ==
    <<46, 32, 86, 97, 108, 105, 100, 32, 115, 121, 109, 98, 111, 108, 115, 58, 32>>
\* ", "
M_comma == <<44, 32>>
\* "Unknown provider: "
M_unknown_provider ==
    <<85, 110, 107, 110, 111, 119, 110, 32, 112, 114, 111, 118, 105, 100, 101, 114,
      58, 32>>

\* sep.join(strs)
RECURSIVE Join(_, _)
Join(sep, strs) ==
    IF strs = << >> THEN << >>
    ELSE IF Len(strs) = 1 THEN Head(strs)
    ELSE Head(strs) \o sep \o Join(sep, Tail(strs))

\* Python/polars string order: lexicographic by code point, a proper prefix first
RECURSIVE StrLeq(_, _)
StrLeq(a, b) ==
    IF a = << >> THEN TRUE
    ELSE IF b = << >> THEN FALSE
    ELSE IF Head(a) < Head(b) THEN TRUE
    ELSE IF Head(a) > Head(b) THEN FALSE
    ELSE StrLeq(Tail(a), Tail(b))

-----------------------------------------------------------------------------
(* polars expressions: three-valued logic, null propagates through a        *)
(* comparison and filter keeps only the rows whose predicate is true        *)

ColEq(cell, lit) == IF cell.null THEN "null" ELSE IF cell.v = lit THEN "true" ELSE "false"
ColNe(cell, lit) == IF cell.null THEN "null" ELSE IF cell.v # lit THEN "true" ELSE "false"
IsNotNull(cell) == IF cell.null THEN "false" ELSE "true"
And3(a, b) ==
    IF a = "false" \/ b = "false" THEN "false"
    ELSE IF a = "null" \/ b = "null" THEN "null"
    ELSE "true"

\* a DataFrame: its column names and its rows, each row a function on the columns
DataFrame(columns, rows) == [columns |-> columns, rows |-> rows]

-----------------------------------------------------------------------------
(* _filter_and_clean *)

\* line 131: providers whose rows go through the currency filter
HasCurrencyFilter_All(provider) == provider \in {"ssga", "ishares", "direxion"}
HasCurrencyFilter(provider) == provider \in {"ssga", "ishares"}

\* line 132
currency_col(provider) == IF provider = "ssga" THEN "Local Currency" ELSE "Market Currency"

\* line 133: (pl.col(currency_col) == "USD") & (pl.col("Ticker") != "-")
UsdAndNotDash(row, col) == And3(ColEq(row[col], S_USD), ColNe(row["Ticker"], S_dash))

\* lines 136-137: Ticker is_not_null & != "" & != "-"
TickerEligible_NoEmptyCheck(row) ==
    And3(IsNotNull(row["Ticker"]), ColNe(row["Ticker"], S_dash))
TickerEligible(row) ==
    And3(And3(IsNotNull(row["Ticker"]), ColNe(row["Ticker"], S_empty)),
         ColNe(row["Ticker"], S_dash))

\* line 138: .select("Ticker")
SelectTicker_KeepAll(df) == df
SelectTicker(df) ==
    DataFrame({"Ticker"}, [i \in 1..Len(df.rows) |-> [c \in {"Ticker"} |-> df.rows[i][c]]])

\* order of a sort key column: nulls first, then string order
CellLeq(a, b) ==
    IF a.null THEN TRUE
    ELSE IF b.null THEN FALSE
    ELSE StrLeq(a.v, b.v)

RECURSIVE InsertSorted(_, _)
InsertSorted(row, rows) ==
    IF rows = << >> THEN <<row>>
    ELSE IF CellLeq(row["Ticker"], Head(rows)["Ticker"]) THEN <<row>> \o rows
    ELSE <<Head(rows)>> \o InsertSorted(row, Tail(rows))

RECURSIVE SortRows(_)
SortRows(rows) ==
    IF rows = << >> THEN << >> ELSE InsertSorted(Head(rows), SortRows(Tail(rows)))

\* line 138: .sort("Ticker")
SortByTicker_Unsorted(df) == df
SortByTicker(df) == DataFrame(df.columns, SortRows(df.rows))

\* lines 121-139; a column an expression names but the frame lacks raises
filter_and_clean(df, provider) ==
    IF HasCurrencyFilter(provider) /\ ~({currency_col(provider), "Ticker"} \subseteq df.columns)
    THEN Raise("ColumnNotFoundError", << >>)
    ELSE IF "Ticker" \notin df.columns
    THEN Raise("ColumnNotFoundError", << >>)
    ELSE
        LET df1 == IF HasCurrencyFilter(provider)
                   THEN DataFrame(df.columns,
                            SelectSeq(df.rows,
                                LAMBDA r : UsdAndNotDash(r, currency_col(provider)) = "true"))
                   ELSE df
            df2 == DataFrame(df1.columns,
                       SelectSeq(df1.rows, LAMBDA r : TickerEligible(r) = "true"))
        IN  Ok(SortByTicker(SelectTicker(df2)))

-----------------------------------------------------------------------------
(* Provider loaders.  The fetch and parse (pl.read_excel, pl.read_csv) is   *)
(* external: each loader is given its outcome `read`, a frame or an         *)
(* exception, and an exception propagates unchanged.                        *)

\* DataFrame.rename(mapping): columns keep their data under the new name; two
\* columns with one name raise
Renamed(m, c) == IF \E p \in m : p[1] = c THEN (CHOOSE p \in m : p[1] = c)[2] ELSE c
Rename(df, m) ==
    LET newcols == {Renamed(m, c) : c \in df.columns}
    IN  IF Cardinality(newcols) # Cardinality(df.columns)
        THEN Raise("DuplicateError", << >>)
        ELSE Ok(DataFrame(newcols,
                 [i \in 1..Len(df.rows) |->
                     [c2 \in newcols |->
                         df.rows[i][CHOOSE c \in df.columns : Renamed(m, c) = c2]]]))

\* lines 40-57: a dict of sheets yields its first sheet, a frame is returned as is
load_ssga_excel(read) ==
    IF read.kind = "raise" THEN read
    ELSE IF "sheets" \in DOMAIN read.value
    THEN IF read.value.sheets = << >> THEN Raise("IndexError", << >>)
         ELSE Ok(read.value.sheets[1])
    ELSE read

IsharesColumns == {"Ticker", "Name", "Weight (%)", "Market Currency"}

\* lines 60-76: read_csv(columns=[...]) keeps exactly the four named columns
load_ishares_csv(read) ==
    IF read.kind = "raise" THEN read
    ELSE IF ~(IsharesColumns \subseteq read.value.columns)
    THEN Raise("ColumnNotFoundError", << >>)
    ELSE Rename(DataFrame(IsharesColumns,
                    [i \in 1..Len(read.value.rows) |->
                        [c \in IsharesColumns |-> read.value.rows[i][c]]]),
                {<<"Weight (%)", "Weight">>})

\* lines 93-97
ticker_rename(columns) ==
    IF "StockTicker" \in columns THEN Ok({<<"StockTicker", "Ticker">>})
    ELSE IF "Ticker" \notin columns THEN Raise("ValueError", M_no_ticker)
    ELSE Ok({})

\* lines 99-105
name_rename_NoDescription(columns) ==
    IF "SecurityDescription" \in columns THEN Ok({<<"SecurityDescription", "Name">>})
    ELSE IF "Name" \notin columns THEN Raise("ValueError", M_no_name)
    ELSE Ok({})
name_rename(columns) ==
    IF "SecurityDescription" \in columns THEN Ok({<<"SecurityDescription", "Name">>})
    ELSE IF "Description" \in columns THEN Ok({<<"Description", "Name">>})
    ELSE IF "Name" \notin columns THEN Raise("ValueError", M_no_name)
    ELSE Ok({})

\* lines 107-113
weight_rename(columns) ==
    IF "HoldingsPercent" \in columns THEN Ok({<<"HoldingsPercent", "Weight">>})
    ELSE IF "% of Net Assets" \in columns THEN Ok({<<"% of Net Assets", "Weight">>})
    ELSE IF "Weight" \notin columns THEN Raise("ValueError", M_no_weight)
    ELSE Ok({})

\* lines 79-118
load_direxion_csv(read) ==
    IF read.kind = "raise" THEN read
    ELSE
        LET df == read.value
            t == ticker_rename(df.columns)
            n == name_rename(df.columns)
            w == weight_rename(df.columns)
        IN  IF t.kind = "raise" THEN t
            ELSE IF n.kind = "raise" THEN n
            ELSE IF w.kind = "raise" THEN w
            ELSE LET rename_map == t.value \cup n.value \cup w.value
                 IN  IF rename_map # {} THEN Rename(df, rename_map) ELSE Ok(df)

-----------------------------------------------------------------------------
(* _save_holdings and the filesystem.  A path is the sequence of its         *)
(* components; fs.dirs are the directories, fs.files maps each file's path  *)
(* to its text.  fs.faults are the paths at which the operating system      *)
(* fails a write (permissions, quota, device error): "open" when opening    *)
(* the file fails, "write" when the file is opened, hence created or        *)
(* truncated, and writing the data fails.                                   *)

\* Path.cwd()
Cwd == <<S_work>>

Prefixes(path) == {SubSeq(path, 1, k) : k \in 0..Len(path)}

\* line 153: output_dir.mkdir(parents=True, exist_ok=True)
mkdir_NoParents(f, dir) ==
    IF dir \in DOMAIN f.files THEN [fs |-> f, ret |-> Raise("FileExistsError", << >>)]
    ELSE IF dir # << >> /\ SubSeq(dir, 1, Len(dir) - 1) \notin f.dirs
    THEN [fs |-> f, ret |-> Raise("FileNotFoundError", << >>)]
    ELSE [fs |-> [f EXCEPT !.dirs = @ \cup {dir}], ret |-> Ok(Null)]
mkdir(f, dir) ==
    IF dir \in DOMAIN f.files THEN [fs |-> f, ret |-> Raise("FileExistsError", << >>)]
    ELSE IF \E p \in Prefixes(dir) : p \in DOMAIN f.files
    THEN [fs |-> f, ret |-> Raise("NotADirectoryError", << >>)]
    ELSE [fs |-> [f EXCEPT !.dirs = @ \cup Prefixes(dir)], ret |-> Ok(Null)]

\* Path.write_text(data): creates or replaces the file
write_text_Discard(f, path, data) == [fs |-> f, ret |-> Ok(Null)]
write_text(f, path, data) ==
    IF path \in f.dirs THEN [fs |-> f, ret |-> Raise("IsADirectoryError", << >>)]
    ELSE IF SubSeq(path, 1, Len(path) - 1) \notin f.dirs
    THEN [fs |-> f, ret |-> Raise("FileNotFoundError", << >>)]
    ELSE IF path \in DOMAIN f.faults /\ f.faults[path] = "open"
    THEN [fs |-> f, ret |-> Raise("PermissionError", << >>)]
    ELSE IF path \in DOMAIN f.faults
    THEN [fs |-> [f EXCEPT !.files = (path :> << >>) @@ @],
          ret |-> Raise("OSError", << >>)]
    ELSE [fs |-> [f EXCEPT !.files = (path :> data) @@ @], ret |-> Ok(Null)]

\* line 157: "\n".join(tickers) + "\n"
FileText_NoTrailingNewline(tickers) == Join(NL, tickers)
FileText(tickers) == Join(NL, tickers) \o NL

\* line 157: output_dir / f"{symbol}.txt"
OutputFile(dir, symbol) == dir \o <<symbol \o Ext_txt>>

\* lines 142-157; yields the filesystem left behind and the outcome
save_holdings(f, df, symbol, output_dir) ==
    LET dir == IF output_dir.null THEN Cwd ELSE output_dir.v
        m == mkdir(f, dir)
    IN  IF m.ret.kind = "raise" THEN m
        ELSE IF "Ticker" \notin df.columns
        THEN [fs |-> m.fs, ret |-> Raise("ColumnNotFoundError", << >>)]
        ELSE IF \E i \in 1..Len(df.rows) : df.rows[i]["Ticker"].null
        THEN [fs |-> m.fs, ret |-> Raise("TypeError", << >>)]
        ELSE write_text(m.fs, OutputFile(dir, symbol),
                        FileText([i \in 1..Len(df.rows) |-> df.rows[i]["Ticker"].v]))

-----------------------------------------------------------------------------
(* Registry and get_etf_holdings *)

\* lines 14-35: the keys in dict order, and each key's entry
ETF_KEYS == <<S_spy, S_mdy, S_spsm, S_qqq, S_iwm>>

ETF_CONFIGS(key) ==
    IF key = S_spy THEN
        [url |-> "https://www.ssga.com/us/en/individual/library-content/products/fund-data/etfs/us/holdings-daily-us-en-spy.xlsx",
         provider |-> "ssga"]
    ELSE IF key = S_mdy THEN
        [url |-> "https://www.ssga.com/us/en/individual/library-content/products/fund-data/etfs/us/holdings-daily-us-en-mdy.xlsx",
         provider |-> "ssga"]
    ELSE IF key = S_spsm THEN
        [url |-> "https://www.ssga.com/us/en/individual/library-content/products/fund-data/etfs/us/holdings-daily-us-en-spsm.xlsx",
         provider |-> "ssga"]
    ELSE IF key = S_qqq THEN
        [url |-> "https://www.direxion.com/holdings/QQQE.csv",
         provider |-> "direxion"]
    ELSE
        [url |-> "https://www.ishares.com/us/products/239710/ishares-russell-2000-etf/1467271812596.ajax?fileType=csv&fileName=IWM_holdings&dataType=fund",
         provider |-> "ishares"]

\* line 181: symbol_lower in ETF_CONFIGS
IsRegistered(key) == \E i \in 1..Len(ETF_KEYS) : ETF_KEYS[i] = key

\* str.lower() on ASCII text
Lower(str) == [i \in 1..Len(str) |-> IF str[i] \in 65..90 THEN str[i] + 32 ELSE str[i]]

\* line 179
symbol_lower_AsGiven(symbol) == symbol
symbol_lower(symbol) == Lower(symbol)

\* lines 182-185: f"Unknown ETF symbol: {symbol}. Valid symbols: {', '.join(ETF_CONFIGS.keys())}"
UnknownSymbolMessage_NoList(symbol) == M_unknown_symbol \o symbol
UnknownSymbolMessage(symbol) ==
    M_unknown_symbol \o symbol \o M_valid_symbols \o Join(M_comma, ETF_KEYS)

\* lines 191-199: the loader chosen by the provider tag, applied to what its read yields
LoaderName(provider) ==
    IF provider = "ssga" THEN "_load_ssga_excel"
    ELSE IF provider = "ishares" THEN "_load_ishares_csv"
    ELSE IF provider = "direxion" THEN "_load_direxion_csv"
    ELSE "none"

Load_AlwaysSsga(provider, read) == load_ssga_excel(read)
Load(provider, read) ==
    IF provider = "ssga" THEN load_ssga_excel(read)
    ELSE IF provider = "ishares" THEN load_ishares_csv(read)
    ELSE IF provider = "direxion" THEN load_direxion_csv(read)
    ELSE Raise("ValueError", M_unknown_provider)

LoaderCall(provider, url) == [comp |-> "loader", name |-> LoaderName(provider), url |-> url]
NormalizerCall(df, provider) == [comp |-> "normalizer", df |-> df, provider |-> provider]
WriterCall(df, symbol, output_dir) ==
    [comp |-> "writer", df |-> df, symbol |-> symbol, output_dir |-> output_dir]

\* lines 160-207, run on filesystem f with `read` the outcome of the provider's
\* fetch; yields the filesystem left behind, the outcome and the components
\* invoked in order
get_etf_holdings(f, symbol, output_dir, read) ==
    IF ~IsRegistered(symbol_lower(symbol))
    THEN [fs |-> f, ret |-> Raise("ValueError", UnknownSymbolMessage(symbol)),
          trace |-> << >>]
    ELSE
        LET config == ETF_CONFIGS(symbol_lower(symbol))
            provider == config.provider
            url == config.url
            loaded == Load(provider, read)
            t1 == <<LoaderCall(provider, url)>>
        IN  IF loaded.kind = "raise" THEN [fs |-> f, ret |-> loaded, trace |-> t1]
            ELSE
                LET cleaned == filter_and_clean(loaded.value, provider)
                    t2 == Append(t1, NormalizerCall(loaded.value, provider))
                IN  IF cleaned.kind = "raise"
                    THEN [fs |-> f, ret |-> cleaned, trace |-> t2]
                    ELSE
                        LET saved == save_holdings(f, cleaned.value,
                                         symbol_lower(symbol), output_dir)
                            t3 == Append(t2, WriterCall(cleaned.value,
                                         symbol_lower(symbol), output_dir))
                        IN  IF saved.ret.kind = "raise"
                            THEN [fs |-> saved.fs, ret |-> saved.ret, trace |-> t3]
                            ELSE [fs |-> saved.fs, ret |-> Ok(cleaned.value),
                                  trace |-> t3]

-----------------------------------------------------------------------------
(* Inputs of the direct calls *)

Providers == {"ssga", "ishares", "direxion"}

TickerCells == {Null, Some(S_empty), Some(S_dash), Some(S_A), Some(S_AB), Some(S_B)}
CurrencyCells == {Null, Some(S_USD), Some(S_EUR)}
NameCell == Some(<<78>>)

\* the column sets a frame handed to the normalizer may have
FrameColumns ==
    { {"Ticker", "Name", "Weight"},
      {"Ticker", "Name", "Weight", "Local Currency"},
      {"Ticker", "Name", "Weight", "Market Currency"},
      {"Name", "Weight"} }

CellsOf(c) ==
    IF c = "Ticker" THEN TickerCells
    ELSE IF c \in {"Local Currency", "Market Currency"} THEN CurrencyCells
    ELSE {NameCell}

RowsOver(columns) == {r \in [columns -> TickerCells \cup CurrencyCells \cup {NameCell}] :
                        \A c \in columns : r[c] \in CellsOf(c)}

SeqsUpTo(S, n) == UNION {[1..k -> S] : k \in 0..n}

Frames == UNION { {DataFrame(cols, rows) : rows \in SeqsUpTo(RowsOver(cols), MaxRows)} :
                  cols \in FrameColumns }

EmptyFs == [dirs |-> {}, files |-> << >>, faults |-> << >>]

-----------------------------------------------------------------------------
(* Direct call of _filter_and_clean(df, provider) *)

InitFilter ==
    /\ pc = "called"
    /\ call \in {[op |-> "_filter_and_clean", df |-> df, provider |-> p] :
                    df \in Frames, p \in Providers}
    /\ ret = NoRet
    /\ fs = EmptyFs
    /\ trace = << >>
    /\ ncalls = 0

FilterAndClean ==
    /\ pc = "called"
    /\ call.op = "_filter_and_clean"
    /\ ret' = filter_and_clean(call.df, call.provider)
    /\ pc' = "returned"
    /\ UNCHANGED <<call, fs, trace, ncalls>>

NextFilter == FilterAndClean

SpecFilter == InitFilter /\ [][NextFilter]_vars

-----------------------------------------------------------------------------
(* Direct calls of the loaders, each with the outcome of its external read *)

DirexionNames ==
    {"Ticker", "StockTicker", "Name", "Description", "SecurityDescription",
     "Weight", "% of Net Assets", "HoldingsPercent", "Shares"}

EraOldColumns == {"Ticker", "Description", "% of Net Assets"}
EraNewColumns == {"StockTicker", "SecurityDescription", "HoldingsPercent"}

RawCell(c) == IF c \in {"Ticker", "StockTicker"} THEN Some(S_A) ELSE NameCell
RawRow(columns) == [c \in columns |-> RawCell(c)]
RawFrame(columns, n) == DataFrame(columns, [i \in 1..n |-> RawRow(columns)])

FetchError == Raise("FetchOrParseError", << >>)

DirexionReads ==
    {Ok(RawFrame(cols, n)) : cols \in SUBSET DirexionNames, n \in 0..MaxRows}
        \cup {FetchError}

IsharesReads ==
    {Ok(RawFrame(IsharesColumns \cup extra, n)) :
        extra \in SUBSET {"Weight", "Shares"}, n \in 0..MaxRows}
        \cup {Ok(RawFrame({"Ticker", "Name"}, 1)), FetchError}

SsgaColumns == {"Ticker", "Name", "Weight", "Local Currency"}

SsgaFrame(n) == RawFrame(SsgaColumns, n)
SsgaReads ==
    {Ok(SsgaFrame(n)) : n \in 0..MaxRows}
        \cup {Ok([sheets |-> <<SsgaFrame(n), SsgaFrame(0)>>]) : n \in 0..MaxRows}
        \cup {Ok([sheets |-> << >>]), FetchError}

InitLoader ==
    /\ pc = "called"
    /\ call \in {[op |-> "_load_direxion_csv", read |-> r] : r \in DirexionReads}
           \cup {[op |-> "_load_ishares_csv", read |-> r] : r \in IsharesReads}
           \cup {[op |-> "_load_ssga_excel", read |-> r] : r \in SsgaReads}
    /\ ret = NoRet
    /\ fs = EmptyFs
    /\ trace = << >>
    /\ ncalls = 0

LoadDirexionCsv ==
    /\ pc = "called"
    /\ call.op = "_load_direxion_csv"
    /\ ret' = load_direxion_csv(call.read)
    /\ pc' = "returned"
    /\ UNCHANGED <<call, fs, trace, ncalls>>

LoadIsharesCsv ==
    /\ pc = "called"
    /\ call.op = "_load_ishares_csv"
    /\ ret' = load_ishares_csv(call.read)
    /\ pc' = "returned"
    /\ UNCHANGED <<call, fs, trace, ncalls>>

LoadSsgaExcel ==
    /\ pc = "called"
    /\ call.op = "_load_ssga_excel"
    /\ ret' = load_ssga_excel(call.read)
    /\ pc' = "returned"
    /\ UNCHANGED <<call, fs, trace, ncalls>>

NextLoader == LoadDirexionCsv \/ LoadIsharesCsv \/ LoadSsgaExcel

SpecLoader == InitLoader /\ [][NextLoader]_vars

-----------------------------------------------------------------------------
(* Direct call of _save_holdings(df, symbol, output_dir) *)

NestedDir == <<S_work, S_nested, S_out>>

\* only the working directory exists
FsClean == [dirs |-> Prefixes(Cwd), files |-> << >>, faults |-> << >>]
\* the output directory exists and already holds files, an older spy.txt among them
FsUsed ==
    [dirs |-> Prefixes(NestedDir),
     files |-> (OutputFile(NestedDir, S_spy) :> (S_B \o NL))
                 @@ ((NestedDir \o <<S_other>>) :> S_A)
                 @@ (OutputFile(Cwd, S_spy) :> (S_B \o NL)),
     faults |-> << >>]
\* a regular file sits where a parent of the output directory should be
FsBlocked ==
    [dirs |-> Prefixes(Cwd), files |-> (<<S_work, S_nested>> :> S_A), faults |-> << >>]
\* a directory sits where the output file should be
FsDirAtFile ==
    [dirs |-> Prefixes(Cwd) \cup {OutputFile(Cwd, S_spy)}, files |-> << >>,
     faults |-> << >>]
\* qqq.txt cannot be opened in the output directory still to be created, and
\* writing spy.txt in the working directory fails after the file was opened
FsFaulty ==
    [dirs |-> Prefixes(Cwd), files |-> << >>,
     faults |-> (OutputFile(NestedDir, S_qqq) :> "open")
                  @@ (OutputFile(Cwd, S_spy) :> "write")]

Filesystems == {FsClean, FsUsed, FsBlocked, FsDirAtFile, FsFaulty}
OutputDirs == {Null, Some(Cwd), Some(NestedDir)}

SaveFrames ==
    UNION { {DataFrame(cols, rows) : rows \in SeqsUpTo(RowsOver(cols), MaxRows)} :
            cols \in {{"Ticker"}, {"Ticker", "Name"}, {"Name"}} }

InitSave ==
    /\ pc = "called"
    /\ fs \in Filesystems
    /\ call \in {[op |-> "_save_holdings", df |-> df, symbol |-> sym, output_dir |-> d,
                  fs0 |-> fs] :
                    df \in SaveFrames, sym \in {S_spy, S_qqq}, d \in OutputDirs}
    /\ ret = NoRet
    /\ trace = << >>
    /\ ncalls = 0

SaveHoldings ==
    /\ pc = "called"
    /\ call.op = "_save_holdings"
    /\ LET r == save_holdings(fs, call.df, call.symbol, call.output_dir)
       IN  fs' = r.fs /\ ret' = r.ret
    /\ pc' = "returned"
    /\ UNCHANGED <<call, trace, ncalls>>

NextSave == SaveHoldings

SpecSave == InitSave /\ [][NextSave]_vars

-----------------------------------------------------------------------------
(* Calls of get_etf_holdings(symbol, output_dir), one after another on one  *)
(* filesystem; each call's fetch yields whatever the provider serves         *)

Symbols == {S_spy, S_SPY, S_Qqq, S_iwm, S_ZZZZ}

ServedRow(columns, ticker, currency) ==
    [c \in columns |->
        IF c \in {"Ticker", "StockTicker"} THEN Some(ticker)
        ELSE IF c \in {"Local Currency", "Market Currency"} THEN Some(currency)
        ELSE NameCell]

\* rows an ssga sheet may hold: an eligible USD row, a "-" row, a non-USD row
ServedRows ==
    {ServedRow(SsgaColumns, S_A, S_USD), ServedRow(SsgaColumns, S_dash, S_USD),
     ServedRow(SsgaColumns, S_B, S_EUR)}

\* what pl.read_excel / pl.read_csv may yield for a provider's URL: read_excel
\* a frame or a dict of sheets, read_csv a frame, either an exception
ServedBy(provider) ==
    IF provider = "ssga" THEN
        {Ok(DataFrame(SsgaColumns, rows)) : rows \in SeqsUpTo(ServedRows, MaxFetchRows)}
        \cup {Ok([sheets |-> <<DataFrame(SsgaColumns, <<row>>)>>]) : row \in ServedRows}
        \cup {FetchError}
    ELSE IF provider = "ishares" THEN
        {Ok(DataFrame(IsharesColumns, rows)) :
            rows \in SeqsUpTo({ServedRow(IsharesColumns, S_B, S_USD),
                               ServedRow(IsharesColumns, S_A, S_EUR)}, MaxFetchRows)}
        \cup {FetchError}
    ELSE
        UNION { {Ok(DataFrame(cols, rows)) :
                    rows \in SeqsUpTo({ServedRow(cols, S_A, S_USD)}, MaxFetchRows)} :
                cols \in {EraOldColumns, EraNewColumns} }
        \cup {Ok(RawFrame({"StockTicker"}, 1)), FetchError}

\* the fetch a call for `symbol` performs: none for an unregistered symbol
ServedFor(symbol) ==
    IF IsRegistered(Lower(symbol)) THEN ServedBy(ETF_CONFIGS(Lower(symbol)).provider)
    ELSE {NoRet}

Init ==
    /\ pc = "idle"
    /\ call = [op |-> "none"]
    /\ ret = NoRet
    /\ fs \in {FsClean, FsBlocked, FsFaulty}
    /\ trace = << >>
    /\ ncalls = 0

GetEtfHoldings ==
    /\ pc \in {"idle", "returned"}
    /\ ncalls < MaxCalls
    /\ \E symbol \in Symbols, output_dir \in {Null, Some(NestedDir)} :
        \E read \in ServedFor(symbol) :
          LET r == get_etf_holdings(fs, symbol, output_dir, read)
          IN  /\ call' = [op |-> "get_etf_holdings", symbol |-> symbol,
                          output_dir |-> output_dir, read |-> read, fs0 |-> fs]
              /\ fs' = r.fs
              /\ ret' = r.ret
              /\ trace' = r.trace
    /\ pc' = "returned"
    /\ ncalls' = ncalls + 1

Next == GetEtfHoldings

Spec == Init /\ [][Next]_vars

-----------------------------------------------------------------------------
(* main(): every registered symbol in turn, output_dir left to its default *)

\* a directory sits where qqq's output file should be
FsDirAtQqq ==
    [dirs |-> Prefixes(Cwd) \cup {OutputFile(Cwd, S_qqq)}, files |-> << >>,
     faults |-> << >>]

MainFilesystems == {FsClean, FsUsed, FsDirAtFile, FsDirAtQqq, FsFaulty}

\* lines 257-260: where main stands after get_etf_holdings(ETF_KEYS[i]) ended
\* with `outcome`; nothing catches an exception, so it leaves the loop and main
main_after_KeepGoing(i, outcome) == [pc |-> "main", i |-> i + 1]
main_after(i, outcome) ==
    IF outcome.kind = "raise" THEN [pc |-> "raised", i |-> i]
    ELSE [pc |-> "main", i |-> i + 1]

\* call.i is the position of the loop in ETF_CONFIGS.keys(); call.processed are
\* the symbols handed to get_etf_holdings so far
InitMain ==
    /\ pc = "main"
    /\ fs \in MainFilesystems
    /\ call = [op |-> "main", i |-> 1, processed |-> << >>, fs0 |-> fs]
    /\ ret = NoRet
    /\ trace = << >>
    /\ ncalls = 0

\* lines 257-260: one pass of the loop body
MainIteration ==
    /\ pc = "main"
    /\ call.op = "main"
    /\ call.i <= Len(ETF_KEYS)
    /\ LET symbol == ETF_KEYS[call.i]
       IN  \E read \in ServedFor(symbol) :
               LET r == get_etf_holdings(fs, symbol, Null, read)
                   after == main_after(call.i, r.ret)
               IN  /\ fs' = r.fs
                   /\ ret' = r.ret
                   /\ trace' = r.trace
                   /\ pc' = after.pc
                   /\ call' = [call EXCEPT !.i = after.i,
                                           !.processed = Append(@, symbol)]
    /\ ncalls' = ncalls + 1

\* lines 257, 261: the keys are exhausted, main returns None
MainReturn ==
    /\ pc = "main"
    /\ call.op = "main"
    /\ call.i > Len(ETF_KEYS)
    /\ pc' = "returned"
    /\ ret' = Ok(Null)
    /\ UNCHANGED <<call, fs, trace, ncalls>>

NextMain == MainIteration \/ MainReturn

SpecMain == InitMain /\ [][NextMain]_vars

-----------------------------------------------------------------------------
(* Properties of _filter_and_clean *)

FilterReturned == pc = "returned" /\ call.op = "_filter_and_clean"
FilterOk == FilterReturned /\ ret.kind = "ok"

\* number of rows of a sequence that satisfy P
CountRows(rows, P(_)) == Cardinality({i \in 1..Len(rows) : P(rows[i])})

IsEligibleTicker(cell) == ~cell.null /\ cell.v # S_empty /\ cell.v # S_dash

\* C1: for every provider tag and every input table, no row of the table
\* returned by _filter_and_clean has a Ticker that is "-", "" or null.
C1_NoIneligibleTicker ==
    FilterOk =>
        \A i \in 1..Len(ret.value.rows) :
            /\ ~ret.value.rows[i]["Ticker"].null
            /\ ret.value.rows[i]["Ticker"].v # S_dash
            /\ ret.value.rows[i]["Ticker"].v # S_empty

\* the input held a "-", an empty and a null ticker among USD rows, and the call returned
C1_Witness ==
    /\ FilterOk
    /\ call.provider = "ssga"
    /\ Len(call.df.rows) = 2
    /\ call.df.rows[1]["Ticker"] = Some(S_empty)
    /\ call.df.rows[2]["Ticker"] = Some(S_dash)
    /\ \A i \in 1..2 : call.df.rows[i]["Local Currency"] = Some(S_USD)

\* C2: under ssga and ishares every row whose currency column is not "USD" is
\* excluded (each ticker occurs in the output at most as often as it occurs in
\* USD rows of the input); under direxion no currency filter applies: the call
\* returns whenever the frame has a Ticker column and every eligible ticker
\* occurs in the output exactly as often as in the input, whatever currency
\* column the frame carries or lacks.
C2_CurrencyFilter ==
    FilterReturned =>
        /\ (call.provider \in {"ssga", "ishares"} /\ ret.kind = "ok") =>
              \A t \in TickerCells :
                  CountRows(ret.value.rows, LAMBDA r : r["Ticker"] = t)
                    <= CountRows(call.df.rows,
                          LAMBDA r : r["Ticker"] = t
                                     /\ r[currency_col(call.provider)] = Some(S_USD))
        /\ (call.provider = "direxion" /\ "Ticker" \in call.df.columns) =>
              /\ ret.kind = "ok"
              /\ \A t \in {c \in TickerCells : IsEligibleTicker(c)} :
                    CountRows(ret.value.rows, LAMBDA r : r["Ticker"] = t)
                      = CountRows(call.df.rows, LAMBDA r : r["Ticker"] = t)

\* a direxion frame carrying a non-USD currency and a null currency: both rows kept
C2_Witness ==
    /\ FilterOk
    /\ call.provider = "direxion"
    /\ "Market Currency" \in call.df.columns
    /\ Len(call.df.rows) = 2
    /\ call.df.rows[1]["Market Currency"] = Some(S_EUR)
    /\ call.df.rows[2]["Market Currency"] = Null
    /\ IsEligibleTicker(call.df.rows[1]["Ticker"])
    /\ IsEligibleTicker(call.df.rows[2]["Ticker"])
    /\ Len(ret.value.rows) = 2

EmptySsgaCall ==
    /\ FilterReturned
    /\ call.provider = "ssga"
    /\ call.df.columns = {"Ticker", "Name", "Weight", "Local Currency"}
    /\ call.df.rows = << >>

\* C4: given an empty ssga table with columns Ticker, Name, Weight and Local
\* Currency, _filter_and_clean returns zero rows with column set exactly
\* {Ticker, Name, Weight}.
C4_EmptyKeepsThreeColumns ==
    EmptySsgaCall =>
        /\ ret.kind = "ok"
        /\ ret.value.rows = << >>
        /\ ret.value.columns = {"Ticker", "Name", "Weight"}

\* C5: the rows of the returned table are in non-decreasing order of Ticker.
C5_SortedByTicker ==
    FilterOk =>
        \A i \in 1..(Len(ret.value.rows) - 1) :
            StrLeq(ret.value.rows[i]["Ticker"].v, ret.value.rows[i + 1]["Ticker"].v)

\* two eligible rows arrived in descending order ("B" before "AB") and were reordered
C5_Witness ==
    /\ FilterOk
    /\ Len(call.df.rows) = 2
    /\ call.df.rows[1]["Ticker"] = Some(S_B)
    /\ call.df.rows[2]["Ticker"] = Some(S_AB)
    /\ Len(ret.value.rows) = 2
    /\ ret.value.rows[1]["Ticker"] = Some(S_AB)

-----------------------------------------------------------------------------
(* Properties of _load_direxion_csv *)

DirexionLoaded ==
    pc = "returned" /\ call.op = "_load_direxion_csv" /\ call.read.kind = "ok"

CanonicalNames == {"Ticker", "Name", "Weight"}
SourceNames ==
    {"StockTicker", "SecurityDescription", "Description", "HoldingsPercent",
     "% of Net Assets"}
EraOld == {"Ticker", "Description", "% of Net Assets"}
EraNew == {"StockTicker", "SecurityDescription", "HoldingsPercent"}

TickerRoleAbsent(cols) == cols \cap {"StockTicker", "Ticker"} = {}
NameRoleAbsent(cols) == cols \cap {"SecurityDescription", "Description", "Name"} = {}
WeightRoleAbsent(cols) == cols \cap {"HoldingsPercent", "% of Net Assets", "Weight"} = {}

\* C8: for the {Ticker, Description, "% of Net Assets"} input and for the
\* {StockTicker, SecurityDescription, HoldingsPercent} input _load_direxion_csv
\* returns a table containing Ticker, Name and Weight and none of the source
\* names; whenever, for the ticker, name or weight role, neither a source name
\* nor the canonical name is present, it fails with the missing-column
\* ValueError of an absent role.
C8_DirexionRename ==
    DirexionLoaded =>
        LET cols == call.read.value.columns
        IN  /\ cols \in {EraOld, EraNew} =>
                  /\ ret.kind = "ok"
                  /\ CanonicalNames \subseteq ret.value.columns
                  /\ ret.value.columns \cap SourceNames = {}
            /\ (TickerRoleAbsent(cols) \/ NameRoleAbsent(cols) \/ WeightRoleAbsent(cols)) =>
                  /\ ret.kind = "raise"
                  /\ ret.exc = "ValueError"
                  /\ \/ TickerRoleAbsent(cols) /\ ret.msg = M_no_ticker
                     \/ NameRoleAbsent(cols) /\ ret.msg = M_no_name
                     \/ WeightRoleAbsent(cols) /\ ret.msg = M_no_weight

\* the older export {Ticker, Description, "% of Net Assets"} with one row was
\* loaded and its Description data now sits under Name
C8_Witness ==
    /\ DirexionLoaded
    /\ call.read.value.columns = EraOld
    /\ Len(call.read.value.rows) = 1
    /\ ret.kind = "ok"
    /\ ret.value.columns = CanonicalNames
    /\ ret.value.rows[1]["Name"] = call.read.value.rows[1]["Description"]

-----------------------------------------------------------------------------
(* Properties of _save_holdings *)

SaveReturned == pc = "returned" /\ call.op = "_save_holdings"
SaveOk == SaveReturned /\ ret.kind = "ok"

SaveDir == IF call.output_dir.null THEN <<S_work>> ELSE call.output_dir.v
SaveTarget(ext) == SaveDir \o <<call.symbol \o ext>>
SaveTickers == [i \in 1..Len(call.df.rows) |-> call.df.rows[i]["Ticker"].v]

\* the text split at each occurrence of the separator code
RECURSIVE SplitOn(_, _)
SplitOn(text, sep) ==
    IF \A i \in 1..Len(text) : text[i] # sep THEN <<text>>
    ELSE LET k == CHOOSE i \in 1..Len(text) :
                    text[i] = sep /\ \A j \in 1..(i - 1) : text[j] # sep
         IN  <<SubSeq(text, 1, k - 1)>> \o SplitOn(SubSeq(text, k + 1, Len(text)), sep)

\* decimal rendering of a natural number
RECURSIVE Dec(_)
Dec(n) == IF n < 10 THEN <<48 + n>> ELSE Dec(n \div 10) \o <<48 + (n % 10)>>

\* reading a CSV text back: its header fields and its data records
CsvLines(text) == SelectSeq(SplitOn(text, 10), LAMBDA l : l # << >>)
CsvHeader(text) == SplitOn(Head(CsvLines(text)), 44)
CsvRecords(text) == [i \in 1..(Len(CsvLines(text)) - 1) |-> SplitOn(CsvLines(text)[i + 1], 44)]

\* C9: after _save_holdings returns, output_dir contains both {symbol}.csv and
\* {symbol}.md, and reading {symbol}.csv back yields a Rank column whose values
\* are 0..n-1, each equal to its row's position.
C9_CsvAndMarkdownWithRank ==
    SaveOk =>
        /\ SaveTarget(Ext_csv) \in DOMAIN fs.files
        /\ SaveTarget(Ext_md) \in DOMAIN fs.files
        /\ LET text == fs.files[SaveTarget(Ext_csv)]
           IN  /\ CsvLines(text) # << >>
               /\ \E k \in 1..Len(CsvHeader(text)) :
                     /\ CsvHeader(text)[k] = S_Rank
                     /\ Len(CsvRecords(text)) = Len(call.df.rows)
                     /\ \A i \in 1..Len(CsvRecords(text)) :
                           CsvRecords(text)[i][k] = Dec(i - 1)

\* nothing stands in the way of the write: no file on the directory's path, no
\* directory at the file's path, no fault of the operating system at the file's
\* path, a Ticker column without nulls
SaveUnblocked ==
    /\ \A p \in Prefixes(SaveDir) : p \notin DOMAIN call.fs0.files
    /\ SaveTarget(Ext_txt) \notin call.fs0.dirs
    /\ SaveTarget(Ext_txt) \notin DOMAIN call.fs0.faults
    /\ "Ticker" \in call.df.columns
    /\ \A i \in 1..Len(call.df.rows) : ~call.df.rows[i]["Ticker"].null

\* each string followed by a newline
RECURSIVE Lines(_)
Lines(strs) == IF strs = << >> THEN << >> ELSE Head(strs) \o NL \o Lines(Tail(strs))

\* the directory and its missing parents exist, {symbol}.txt holds `text`, and
\* no other file or directory was created, changed or removed
SaveEffects(text) ==
    /\ fs.dirs = call.fs0.dirs \cup Prefixes(SaveDir)
    /\ DOMAIN fs.files = DOMAIN call.fs0.files \cup {SaveTarget(Ext_txt)}
    /\ fs.files[SaveTarget(Ext_txt)] = text
    /\ \A p \in DOMAIN call.fs0.files \ {SaveTarget(Ext_txt)} :
          fs.files[p] = call.fs0.files[p]

-----------------------------------------------------------------------------
(* Properties of get_etf_holdings *)

GehReturned == pc = "returned" /\ call.op = "get_etf_holdings"

\* `part` occurs in `text`
Contains(text, part) ==
    \E i \in 0..(Len(text) - Len(part)) : SubSeq(text, i + 1, i + Len(part)) = part

RegisteredSymbols == {S_spy, S_mdy, S_spsm, S_qqq, S_iwm}

\* C6: when the lowercased symbol is not a key of ETF_CONFIGS, get_etf_holdings
\* fails with the unknown-symbol ValueError whose message lists every
\* registered symbol, no loader, normalizer or writer is invoked, and no
\* directory or file is created or changed.
C6_UnknownSymbolFailsFirst ==
    (GehReturned /\ Lower(call.symbol) \notin RegisteredSymbols) =>
        /\ ret.kind = "raise"
        /\ ret.exc = "ValueError"
        /\ SubSeq(ret.msg, 1, Len(M_unknown_symbol)) = M_unknown_symbol
        /\ \A key \in RegisteredSymbols : Contains(ret.msg, key)
        /\ trace = << >>
        /\ fs = call.fs0

\* "ZZZZ" was asked for after an earlier call had written a file, which is untouched
C6_Witness ==
    /\ GehReturned
    /\ call.symbol = S_ZZZZ
    /\ ncalls = 2
    /\ DOMAIN fs.files # {}
    /\ <<S_work, S_spy \o Ext_txt>> \in DOMAIN fs.files
    /\ ret.kind = "raise"

\* the spellings of a symbol that differ from it only in letter case
CaseVariants(str) ==
    { [i \in 1..Len(str) |->
          IF str[i] \in 65..90 /\ i \in low THEN str[i] + 32
          ELSE IF str[i] \in 97..122 /\ i \notin low THEN str[i] - 32
          ELSE str[i]] : low \in SUBSET (1..Len(str)) }

\* C7: get_etf_holdings is case-insensitive in its symbol: a call and the same
\* call with the symbol in any other letter case (same filesystem, same
\* output_dir, same fetched data) invoke the same loader with the same URL, the
\* same normalizer, hand the same lowercased symbol to the writer, leave the
\* same files, and either both succeed with the same result or both fail.
C7_CaseInsensitive ==
    GehReturned =>
        \A other \in CaseVariants(call.symbol) :
            LET r == get_etf_holdings(call.fs0, other, call.output_dir, call.read)
            IN  /\ r.trace = trace
                /\ \A i \in 1..Len(trace) :
                      trace[i].comp = "writer" => trace[i].symbol = Lower(call.symbol)
                /\ r.fs = fs
                /\ r.ret.kind = ret.kind
                /\ ret.kind = "ok" => r.ret = ret

\* "SPY" was asked for: the ssga loader ran on spy's URL and spy.txt was written
C7_Witness ==
    /\ GehReturned
    /\ call.symbol = S_SPY
    /\ call.output_dir = Null
    /\ ret.kind = "ok"
    /\ Len(ret.value.rows) = 1
    /\ Len(trace) = 3
    /\ trace[1].name = "_load_ssga_excel"
    /\ trace[3].symbol = S_spy
    /\ <<S_work, S_spy \o Ext_txt>> \in DOMAIN fs.files

-----------------------------------------------------------------------------
(* The pipeline inside one get_etf_holdings call *)

\* the positions of the trace at which component comp was invoked
InvocationsOf(comp) == {i \in 1..Len(trace) : trace[i].comp = comp}

\* the loader registered for a provider tag (lines 191-197)
LoaderOfProvider(provider) ==
    CASE provider = "ssga" -> "_load_ssga_excel"
      [] provider = "ishares" -> "_load_ishares_csv"
      [] provider = "direxion" -> "_load_direxion_csv"

\* what the named loader yields on the fetched data
LoaderOutput(name, read) ==
    CASE name = "_load_ssga_excel" -> load_ssga_excel(read)
      [] name = "_load_ishares_csv" -> load_ishares_csv(read)
      [] name = "_load_direxion_csv" -> load_direxion_csv(read)

\* C11: a successful get_etf_holdings call invoked exactly one loader, the one
\* of the symbol's provider tag, once and on that symbol's URL; then the
\* normalizer once, with that loader's output and the same provider tag; then
\* the writer once, with the normalizer's output, the lowercased symbol and the
\* caller's output_dir; and it returned the normalizer's output.  In every
\* call, failed ones included, a writer invocation comes after a normalizer
\* invocation and a normalizer invocation after a loader invocation.
C11_PipelineOrder ==
    GehReturned =>
        /\ \A i \in InvocationsOf("writer") : \E j \in InvocationsOf("normalizer") : j < i
        /\ \A i \in InvocationsOf("normalizer") : \E j \in InvocationsOf("loader") : j < i
        /\ ret.kind = "ok" =>
              LET config == ETF_CONFIGS(Lower(call.symbol))
              IN  /\ IsRegistered(Lower(call.symbol))
                  /\ InvocationsOf("loader") = {1}
                  /\ InvocationsOf("normalizer") = {2}
                  /\ InvocationsOf("writer") = {3}
                  /\ Len(trace) = 3
                  /\ trace[1].name = LoaderOfProvider(config.provider)
                  /\ trace[1].url = config.url
                  /\ trace[2].df = LoaderOutput(trace[1].name, call.read).value
                  /\ trace[2].provider = config.provider
                  /\ trace[3].df = filter_and_clean(trace[2].df, trace[2].provider).value
                  /\ trace[3].symbol = Lower(call.symbol)
                  /\ trace[3].output_dir = call.output_dir
                  /\ ret.value = trace[3].df

\* "Qqq" succeeded into a nested directory: the direxion loader renamed the
\* fetched columns, the normalizer reduced them to Ticker, the writer got "qqq"
C11_Witness ==
    /\ GehReturned
    /\ call.symbol = S_Qqq
    /\ call.output_dir = Some(NestedDir)
    /\ ret.kind = "ok"
    /\ Len(trace) = 3
    /\ trace[1].name = "_load_direxion_csv"
    /\ call.read.value.columns # trace[2].df.columns
    /\ trace[2].df.columns # trace[3].df.columns
    /\ trace[3].symbol = S_qqq
    /\ OutputFile(NestedDir, S_qqq) \in DOMAIN fs.files

-----------------------------------------------------------------------------
(* The batch entry point *)

\* the file main writes for the k-th registered symbol
MainOutput(k) == OutputFile(Cwd, ETF_KEYS[k])

\* path holds the same thing (nothing, or a file of the same text) in f and g
SameFileAt(f, g, path) ==
    /\ path \in DOMAIN f.files <=> path \in DOMAIN g.files
    /\ path \in f.dirs <=> path \in g.dirs
    /\ path \in DOMAIN f.files /\ path \in DOMAIN g.files => f.files[path] = g.files[path]

MainStepInOrder ==
    LET n == Len(call.processed) + 1
    IN  \/ /\ call'.processed = call.processed
           /\ n > Len(ETF_KEYS)
           /\ pc' = "returned"
           /\ ret' = Ok(Null)
           /\ fs' = fs
        \/ /\ n <= Len(ETF_KEYS)
           /\ call'.processed = Append(call.processed, ETF_KEYS[n])
           /\ ncalls' = ncalls + 1
           /\ \A k \in 1..Len(ETF_KEYS) : k # n => SameFileAt(fs, fs', MainOutput(k))
           /\ ret'.kind = "raise" => pc' = "raised"
           /\ ret'.kind = "ok" => pc' = "main" /\ MainOutput(n) \in DOMAIN fs'.files

MainProgress ==
    LET n == Len(call.processed)
    IN  /\ n <= Len(ETF_KEYS)
        /\ \A k \in 1..n : call.processed[k] = ETF_KEYS[k]
        /\ \A k \in (n + 1)..Len(ETF_KEYS) : SameFileAt(call.fs0, fs, MainOutput(k))
        /\ pc = "raised" =>
              /\ ret.kind = "raise"
              /\ \A k \in 1..(n - 1) : MainOutput(k) \in DOMAIN fs.files
        /\ pc = "main" => \A k \in 1..n : MainOutput(k) \in DOMAIN fs.files
        /\ pc = "returned" =>
              /\ n = Len(ETF_KEYS)
              /\ \A k \in 1..n : MainOutput(k) \in DOMAIN fs.files

\* C12: main hands the registered symbols to get_etf_holdings one at a time in
\* registry order.  When a call fails, main ends with that exception: it takes
\* no further step, so no later symbol is processed and the output paths of the
\* later symbols are as they were when main started, while the files written
\* for the earlier symbols are still there; a pass of the loop touches no
\* other symbol's output file.
C12_MainStopsAtFirstFailure ==
    [][call.op = "main" =>
          /\ pc = "main"
          /\ MainStepInOrder
          /\ MainProgress']_vars

\* qqq, the fourth symbol, failed: spy.txt, mdy.txt and spsm.txt are in place
\* and nothing was written for qqq or iwm
C12_Witness ==
    /\ call.op = "main"
    /\ pc = "raised"
    /\ ret.kind = "raise"
    /\ call.processed = SubSeq(ETF_KEYS, 1, 4)
    /\ \A k \in 1..3 : MainOutput(k) \in DOMAIN fs.files
    /\ \A k \in 4..5 : MainOutput(k) \notin DOMAIN fs.files

-----------------------------------------------------------------------------
(* What a get_etf_holdings call leaves behind *)

\* the directory the call writes into and the file it writes
GehDir == IF call.output_dir.null THEN Cwd ELSE call.output_dir.v
GehTarget == OutputFile(GehDir, Lower(call.symbol))

\* the call returned its table and the symbol's file holds that table's tickers
ReturnedAndWritten ==
    /\ ret.kind = "ok"
    /\ InvocationsOf("writer") # {}
    /\ GehTarget \in DOMAIN fs.files
    /\ fs.files[GehTarget] =
          FileText([i \in 1..Len(ret.value.rows) |-> ret.value.rows[i]["Ticker"].v])

\* the exception is the one of the last component invoked, as that component
\* raised it, and no component was invoked twice
PropagatedAsRaised ==
    /\ ret.kind = "raise"
    /\ \A comp \in {"loader", "normalizer", "writer"} : Cardinality(InvocationsOf(comp)) <= 1
    /\ Len(trace) = 0 => ret.exc = "ValueError"
    /\ Len(trace) = 1 => ret = LoaderOutput(trace[1].name, call.read)
    /\ Len(trace) = 2 => ret = filter_and_clean(trace[2].df, trace[2].provider)
    /\ Len(trace) = 3 =>
          ret = save_holdings(call.fs0, trace[3].df, trace[3].symbol, trace[3].output_dir).ret
    /\ Len(trace) <= 3

\* C13 as stated: a get_etf_holdings call either returns the normalized table
\* having written the symbol's output file, or raises the failure of a
\* component unwrapped and unretried and leaves the filesystem exactly as it
\* was before the call.
C13_AllOrNothing ==
    GehReturned =>
        \/ ReturnedAndWritten
        \/ PropagatedAsRaised /\ fs = call.fs0

\* C13 (amended): a get_etf_holdings call either returns the normalized table
\* having written the symbol's output file, or raises the failure unwrapped
\* and unretried.  A call that fails before the writer runs (unknown symbol,
\* loader, normalizer) leaves the filesystem exactly as it was.  A call whose
\* writer fails is not rolled back: the output directory and its missing
\* parents may have been created and the symbol's output file may have been
\* created or truncated; nothing is removed and no other path changes.
C13_WriterFailureNotRolledBack ==
    GehReturned =>
        \/ ReturnedAndWritten
        \/ /\ PropagatedAsRaised
           /\ InvocationsOf("writer") = {} => fs = call.fs0
           /\ InvocationsOf("writer") # {} =>
                 /\ call.fs0.dirs \subseteq fs.dirs
                 /\ fs.dirs \subseteq call.fs0.dirs \cup Prefixes(GehDir)
                 /\ DOMAIN call.fs0.files \subseteq DOMAIN fs.files
                 /\ DOMAIN fs.files \subseteq DOMAIN call.fs0.files \cup {GehTarget}
                 /\ \A path \in DOMAIN call.fs0.files \ {GehTarget} :
                       fs.files[path] = call.fs0.files[path]
                 /\ fs.faults = call.fs0.faults

\* "Qqq" into a nested directory that did not exist: the directories were
\* created, opening qqq.txt failed, and the directories are still there
C13_Witness ==
    /\ GehReturned
    /\ call.symbol = S_Qqq
    /\ call.output_dir = Some(NestedDir)
    /\ ret.kind = "raise"
    /\ ret.exc = "PermissionError"
    /\ InvocationsOf("writer") = {3}
    /\ NestedDir \notin call.fs0.dirs
    /\ NestedDir \in fs.dirs
    /\ GehTarget \notin DOMAIN fs.files

====
